---- MODULE Spec2Model ----
(***************************************************************************)
(* Model of the computer-use-backend message pipeline:                     *)
(*   app/core/websocket_manager.py   the connection registry and fanout    *)
(*   app/api/endpoints/websocket.py  the handler of one WebSocket client   *)
(*   app/core/agent_service.py       process_message and its generators    *)
(*   app/api/endpoints/messages.py   the POST trigger and background task  *)
(* The program runs on one asyncio event loop: the code between two awaits *)
(* is atomic, and every await is a point where other tasks may run.  One   *)
(* action of the model is one such segment.                                *)
(***************************************************************************)
EXTENDS Integers, Sequences, FiniteSets, TLC

\* ------------------------------------------------------------------ bounds
MaxChunks     == 1     \* text deltas one Primary stream may yield
MaxClientMsgs == 1     \* text frames one client may send
MaxWords      == 3     \* words of a fallback response carried through the pipeline
MaxDbFailures == 1     \* submissions whose content commit fails for a reason other than a missing row
MaxList       == 2     \* length of a connection list under direct calls of connect
MaxMsgWords   == 2     \* words of a message given to the Fallback generator on its own

SessionIds == {1}          \* conversation ids (also the ids a client may name)
Tasks      == {1, 2}       \* POST /sessions/{id}/messages submissions
Conns      == {3, 4}       \* WebSocket clients
Listeners  == {3}          \* the clients that connect while submissions run
Procs      == Tasks \cup Conns   \* every coroutine that may call send_message

\* Values of the environment variable ANTHROPIC_API_KEY: its length and
\* whether it starts with "sk-".  Unset or empty, set but not of the
\* provider's format, and well-formed.
ApiKeys == {[sk |-> FALSE, len |-> 0], [sk |-> FALSE, len |-> 24], [sk |-> TRUE, len |-> 24]}

\* Words a user message is made of, and the messages given to the Fallback
\* generator on its own: every message of at most MaxMsgWords words, and the
\* weather question for Dubai.
Vocabulary == {"weather", "Weather", "Dubai?", "dubai", "Search", "help", "hello", "Hi",
               "this", "why?", "asdkjf123"}

Messages ==
  UNION {[1..k -> Vocabulary] : k \in 1..MaxMsgWords}
    \cup {<<"What's", "the", "weather", "in", "Dubai?">>}

\* message_data.content of each submission
TextOf == [t \in Tasks |-> IF t = 1 THEN <<"hello">> ELSE <<"asdkjf123">>]

\* ------------------------------------------------------------------- state
VARIABLES
  active_connections,  \* WebSocketManager.active_connections: Dict[str, List[WebSocket]]
  fan,                 \* per coroutine: its send_message call in progress
  call,                \* history of that call (what it saw and did)
  last_disconnects,    \* history: the disconnect calls of the latest step
  last_connect,        \* history: the latest connect call
  ws_pc, ws_sess, ws_open, ws_msgs,  \* websocket_endpoint handlers
  api_key,             \* os.getenv('ANTHROPIC_API_KEY')
  reply,               \* what the latest SessionService or health request answered
  db_sessions,         \* rows of table sessions (their ids)
  db_ever,             \* ids of the sessions created so far (uuid4: never reused)
  db_messages,         \* rows of table messages, in timestamp order
  db_failures,         \* submissions whose content commit has failed so far
  t_pc, t_sess, t_text,\* per submission: position, session_id, user_message
  t_client,            \* self.anthropic_client is not None
  t_request,           \* messages handed to the Primary generator
  t_full,              \* full_response of _call_claude_api
  t_i,                 \* loop variable i of _generate_fallback_response
  t_exc,               \* the exception that left process_message ("none" if none)
  t_primary, t_fallback,  \* history: outcome of the Primary attempt, Fallback invoked
  t_writes,            \* history: committed writes of the assistant Turn's content
  t_emitted            \* history: the events the submission handed to send_message

regVars == <<active_connections, fan, call, last_disconnects, last_connect>>
wsVars  == <<ws_pc, ws_sess, ws_open, ws_msgs>>
dbVars  == <<db_sessions, db_ever, db_messages, db_failures>>
taskVars == <<t_pc, t_sess, t_text, t_client, t_request, t_full, t_i, t_exc,
              t_primary, t_fallback, t_writes, t_emitted>>
vars    == <<regVars, wsVars, api_key, reply, dbVars, taskVars>>

\* ------------------------------------------------------- list primitives
SeqSet(l) == {l[i] : i \in 1..Len(l)}

IndexOf(l, x) == CHOOSE i \in 1..Len(l) : l[i] = x /\ \A j \in 1..(i - 1) : l[j] # x

\* list.remove(x): removes the first occurrence; ValueError when absent.
ListRemove(l, x) ==
  IF x \in SeqSet(l)
    THEN [raised |-> FALSE,
          list |-> [i \in 1..(Len(l) - 1) |-> IF i < IndexOf(l, x) THEN l[i] ELSE l[i + 1]]]
    ELSE [raised |-> TRUE, list |-> l]

DropKey(ac, s) == [k \in DOMAIN ac \ {s} |-> ac[k]]

Attached(ac, s) == IF s \in DOMAIN ac THEN SeqSet(ac[s]) ELSE {}

\* ------------------------------------------------------------- registry
\* WebSocketManager.connect after websocket.accept() has returned.
Connect(ac, c, s) ==
  IF s \notin DOMAIN ac
    THEN [k \in DOMAIN ac \cup {s} |-> IF k = s THEN <<c>> ELSE ac[k]]
    ELSE [ac EXCEPT ![s] = Append(@, c)]

\* disconnect without "except ValueError": removing a non-member raises.
DisconnectUncaught(ac, c, s) ==
  IF s \notin DOMAIN ac
    THEN [ac |-> ac, raised |-> FALSE]
    ELSE LET r == ListRemove(ac[s], c) IN
         IF r.raised
           THEN [ac |-> ac, raised |-> TRUE]
           ELSE IF r.list = <<>>
                  THEN [ac |-> DropKey(ac, s), raised |-> FALSE]
                  ELSE [ac |-> [ac EXCEPT ![s] = r.list], raised |-> FALSE]

\* disconnect without "del self.active_connections[session_id]".
DisconnectKeepKey(ac, c, s) ==
  IF s \notin DOMAIN ac
    THEN [ac |-> ac, raised |-> FALSE]
    ELSE LET r == ListRemove(ac[s], c) IN
         IF r.raised
           THEN [ac |-> ac, raised |-> FALSE]
           ELSE [ac |-> [ac EXCEPT ![s] = r.list], raised |-> FALSE]

\* WebSocketManager.disconnect: the registry afterwards and whether an
\* exception left the method.
Disconnect(ac, c, s) ==
  IF s \notin DOMAIN ac
    THEN [ac |-> ac, raised |-> FALSE]
    ELSE LET r == ListRemove(ac[s], c) IN
         IF r.raised
           THEN [ac |-> ac, raised |-> FALSE]        \* except ValueError: warning only
           ELSE IF r.list = <<>>
                  THEN [ac |-> DropKey(ac, s), raised |-> FALSE]
                  ELSE [ac |-> [ac EXCEPT ![s] = r.list], raised |-> FALSE]

\* The record one disconnect call leaves in the history.
DisconnectEntry(ac, c, s) ==
  [conn |-> c, sid |-> s, before |-> ac, after |-> Disconnect(ac, c, s).ac,
   raised |-> Disconnect(ac, c, s).raised]

\* "for connection in disconnected_connections: self.disconnect(connection, session_id)"
RECURSIVE DisconnectAll(_, _, _)
DisconnectAll(ac, failed, s) ==
  IF failed = <<>> THEN ac
  ELSE DisconnectAll(Disconnect(ac, Head(failed), s).ac, Tail(failed), s)

RECURSIVE DisconnectLog(_, _, _)
DisconnectLog(ac, failed, s) ==
  IF failed = <<>> THEN <<>>
  ELSE <<DisconnectEntry(ac, Head(failed), s)>>
       \o DisconnectLog(Disconnect(ac, Head(failed), s).ac, Tail(failed), s)

\* ---------------------------------------------------------------- fanout
IdleFrame == [state |-> "idle"]

\* The history of one send_message call: the connections attached when it
\* started, those detached by anyone while it ran, those it tried, reached and
\* failed to reach, and those attached when it returned.
NoCall == [sid |-> 0, start |-> {}, dropped |-> {}, tried |-> {}, got |-> {},
           failed |-> {}, endset |-> {}, done |-> FALSE]

\* A finished call stays in the history for the state it returns in.
Gc(cl) == [p \in DOMAIN cl |-> IF cl[p].done THEN NoCall ELSE cl[p]]

NoConnect == [conn |-> 0, sid |-> 0, before |-> <<>>, after |-> <<>>, raised |-> FALSE]

\* The history of a step that calls neither connect nor disconnect nor
\* send_message.
RegistryIdle ==
  /\ call' = Gc(call)
  /\ last_disconnects' = <<>>
  /\ last_connect' = NoConnect
  /\ UNCHANGED <<active_connections, fan>>

\* A send_message that walks the list of the first key of the registry.
StartFrameFirstKey(ac, s, e) ==
  IF s \in DOMAIN ac /\ Len(ac[s]) > 0
    THEN LET k == CHOOSE j \in DOMAIN ac : \A i \in DOMAIN ac : j <= i
         IN [state |-> "sending", sid |-> s, evt |-> e, idx |-> 1, cur |-> ac[k][1],
             live |-> TRUE, failed |-> <<>>]
    ELSE IdleFrame

\* send_message up to its first await: the early return when the key is
\* absent, otherwise the list iterator created by the for statement and the
\* first send_text begun.  The iterator refers to the list object: `live`
\* says that this object is still the one the registry holds.
StartFrame(ac, s, e) ==
  IF s \in DOMAIN ac /\ Len(ac[s]) > 0
    THEN [state |-> "sending", sid |-> s, evt |-> e, idx |-> 1, cur |-> ac[s][1],
          live |-> TRUE, failed |-> <<>>]
    ELSE IdleFrame

StartCall(ac, s, e) ==
  [NoCall EXCEPT !.sid = s, !.start = Attached(ac, s),
                 !.done = ~(s \in DOMAIN ac /\ Len(ac[s]) > 0),
                 !.endset = Attached(ac, s)]

\* What the calls in progress see of a change of the registry from ac to ac2:
\* a deleted key leaves their iterator on the old (now empty) list object.
ObserveFan(fr, ac, ac2) ==
  [p \in DOMAIN fr |->
     IF fr[p].state = "sending" /\ fr[p].sid \in DOMAIN ac /\ fr[p].sid \notin DOMAIN ac2
       THEN [fr[p] EXCEPT !.live = FALSE]
       ELSE fr[p]]

ObserveCall(cl, fr, ac, ac2) ==
  [p \in DOMAIN cl |->
     IF fr[p].state = "sending"
       THEN [cl[p] EXCEPT
               !.dropped = @ \cup (Attached(ac, fr[p].sid) \ Attached(ac2, fr[p].sid))]
       ELSE cl[p]]

\* The list the iterator of frame f walks.
IterList(ac, f) == IF f.live /\ f.sid \in DOMAIN ac THEN ac[f.sid] ELSE <<>>

\* One resumption of send_message: the awaited send_text(cur) returns or
\* raises, then the loop takes the next element of the list as it is now, or
\* ends and prunes the connections whose send raised.
FanoutStep(p) ==
  /\ fan[p].state = "sending"
  /\ LET f    == fan[p]
         c    == f.cur
         ok   == ws_open[c]
         bad  == IF ok THEN f.failed ELSE Append(f.failed, c)
         l    == IterList(active_connections, f)
         cl   == [call[p] EXCEPT !.tried = @ \cup {c},
                                 !.got = IF ok THEN @ \cup {c} ELSE @,
                                 !.failed = IF ok THEN @ ELSE @ \cup {c}]
     IN IF f.idx < Len(l)
          THEN /\ fan' = [fan EXCEPT ![p] = [f EXCEPT !.idx = f.idx + 1,
                                                     !.cur = l[f.idx + 1],
                                                     !.failed = bad]]
               /\ call' = [Gc(call) EXCEPT ![p] = cl]
               /\ last_disconnects' = <<>>
               /\ UNCHANGED active_connections
          ELSE LET ac2 == DisconnectAll(active_connections, bad, f.sid)
                   fr  == [fan EXCEPT ![p] = IdleFrame]
               IN /\ active_connections' = ac2
                  /\ fan' = ObserveFan(fr, active_connections, ac2)
                  /\ call' = ObserveCall([Gc(call) EXCEPT ![p] =
                                            [cl EXCEPT !.done = TRUE,
                                                       !.endset = Attached(ac2, f.sid)]],
                                         fr, active_connections, ac2)
                  /\ last_disconnects' = DisconnectLog(active_connections, bad, f.sid)
  /\ last_connect' = NoConnect
  /\ UNCHANGED <<wsVars, api_key, reply, dbVars, taskVars>>

\* ------------------------------------------------- websocket_endpoint
ConnectionEvent(c, s) == [type |-> "connection", src |-> c, session_id |-> s]
ClientMessageEvent(c) == [type |-> "client_message", src |-> c]

\* websocket_endpoint, accept succeeds: connect registers the connection, then
\* broadcast_to_session(session_id, "connection", ...) begins.
WsConnect(c, s) ==
  /\ ws_pc[c] = "new"
  /\ LET ac2 == Connect(active_connections, c, s)
         e   == ConnectionEvent(c, s)
     IN /\ active_connections' = ac2
        /\ fan' = [fan EXCEPT ![c] = StartFrame(ac2, s, e)]
        /\ call' = ObserveCall([Gc(call) EXCEPT ![c] = StartCall(ac2, s, e)],
                               fan, active_connections, ac2)
        /\ last_connect' = [conn |-> c, sid |-> s, before |-> active_connections,
                            after |-> ac2, raised |-> FALSE]
  /\ ws_pc' = [ws_pc EXCEPT ![c] = "receiving"]
  /\ ws_sess' = [ws_sess EXCEPT ![c] = s]
  /\ ws_open' = [ws_open EXCEPT ![c] = TRUE]
  /\ last_disconnects' = <<>>
  /\ UNCHANGED <<ws_msgs, api_key, reply, dbVars, taskVars>>

\* A handler that ends without its finally clause.
WsFinallySkipped(c, s) ==
  /\ ws_pc' = [ws_pc EXCEPT ![c] = "closed"]
  /\ ws_open' = [ws_open EXCEPT ![c] = FALSE]
  /\ call' = Gc(call)
  /\ last_disconnects' = <<>>
  /\ UNCHANGED <<active_connections, fan>>

\* The handler's "finally: websocket_manager.disconnect(websocket, session_id)".
WsFinally(c, s) ==
  LET ac2 == Disconnect(active_connections, c, s).ac
  IN /\ active_connections' = ac2
     /\ fan' = ObserveFan(fan, active_connections, ac2)
     /\ call' = ObserveCall(Gc(call), fan, active_connections, ac2)
     /\ last_disconnects' = <<DisconnectEntry(active_connections, c, s)>>
     /\ ws_pc' = [ws_pc EXCEPT ![c] = "closed"]
     /\ ws_open' = [ws_open EXCEPT ![c] = FALSE]

\* websocket_endpoint, websocket.accept() raises: connect registers nothing,
\* the outer except logs, the finally clause detaches.
WsAcceptFail(c, s) ==
  /\ ws_pc[c] = "new"
  /\ WsFinally(c, s)
  /\ ws_sess' = [ws_sess EXCEPT ![c] = s]
  /\ last_connect' = [conn |-> c, sid |-> s, before |-> active_connections,
                      after |-> active_connections, raised |-> TRUE]
  /\ UNCHANGED <<ws_msgs, api_key, reply, dbVars, taskVars>>

\* receive_text returns a text frame: it is echoed to the session.
WsReceive(c) ==
  /\ ws_pc[c] = "receiving" /\ fan[c].state = "idle"
  /\ ws_open[c] /\ ws_msgs[c] < MaxClientMsgs
  /\ ws_msgs' = [ws_msgs EXCEPT ![c] = @ + 1]
  /\ fan' = [fan EXCEPT ![c] = StartFrame(active_connections, ws_sess[c], ClientMessageEvent(c))]
  /\ call' = [Gc(call) EXCEPT ![c] = StartCall(active_connections, ws_sess[c], ClientMessageEvent(c))]
  /\ last_disconnects' = <<>>
  /\ last_connect' = NoConnect
  /\ UNCHANGED <<active_connections, ws_pc, ws_sess, ws_open,
                 api_key, reply, dbVars, taskVars>>

\* receive_text raises (WebSocketDisconnect or any other error): the loop
\* breaks and the finally clause detaches.
WsClose(c) ==
  /\ ws_pc[c] = "receiving" /\ fan[c].state = "idle"
  /\ WsFinally(c, ws_sess[c])
  /\ last_connect' = NoConnect
  /\ UNCHANGED <<ws_sess, ws_msgs, api_key, reply, dbVars, taskVars>>

\* The peer goes away: from now on send_text on this connection raises.
ChannelBreak(c) ==
  /\ ws_pc[c] = "receiving" /\ ws_open[c]
  /\ ws_open' = [ws_open EXCEPT ![c] = FALSE]
  /\ RegistryIdle
  /\ UNCHANGED <<ws_pc, ws_sess, ws_msgs, api_key, reply, dbVars, taskVars>>

\* ------------------------------------------------------------- credential
MinKeyLen == 20

\* ValidationService.validate_api_key(api_key).is_valid
validate_api_key(k) == k.len # 0 /\ k.sk /\ k.len >= MinKeyLen

\* AnthropicProvider.__init__ assigns self.model_name on the line after the
\* call of _initialize_client, so the attribute does not exist during it.
ModelNameSetBeforeClient == FALSE

\* AnthropicProvider._initialize_client: None without a key, None for a key
\* of the wrong format; for a good key the client is built, then the log line
\* reads self.model_name, and the AttributeError is caught by the except
\* clause, which returns None.
initialize_client(k) ==
  IF k.len = 0 THEN "None"
  ELSE IF ~validate_api_key(k) THEN "None"
  ELSE IF ~ModelNameSetBeforeClient THEN "None"
  ELSE "client"

\* AnthropicProvider.is_available(): self.client is not None.
is_available(k) == initialize_client(k) # "None"

\* DependencyContainer.get_ai_provider
get_ai_provider(k) == IF is_available(k) THEN "AnthropicProvider" ELSE "FallbackProvider"

\* The provider classes that define a method is_available.
HasIsAvailable == {"AnthropicProvider"}

\* ComputerUseAgentService.__init__: _get_api_key raises only when the
\* variable is unset or empty; otherwise anthropic_client is constructed.
HasClient(k) == k.len # 0

\* The provider answers a request only when the key is of its format;
\* otherwise messages.create raises.
KeyAccepted(k) == k.sk /\ k.len >= MinKeyLen

\* -------------------------------------------------------- session names
MIN_SESSION_NAME_LENGTH == 1
MAX_SESSION_NAME_LENGTH == 255

\* A session name: its length, its length after strip(), and whether one of
\* the patterns of _contains_suspicious_content matches it.
Names ==
  {n \in [raw : {0, 1, 2, 3, MAX_SESSION_NAME_LENGTH, MAX_SESSION_NAME_LENGTH + 1,
                 MAX_SESSION_NAME_LENGTH + 2, MAX_SESSION_NAME_LENGTH + 3},
          stripped : {0, 1, MAX_SESSION_NAME_LENGTH, MAX_SESSION_NAME_LENGTH + 1},
          suspicious : BOOLEAN] :
     /\ n.raw \in {n.stripped, n.stripped + 2}
     /\ n.suspicious => n.stripped > 1}

Valid == [is_valid |-> TRUE, error_message |-> "none", field_name |-> "none"]

Invalid(msg, field) == [is_valid |-> FALSE, error_message |-> msg, field_name |-> field]

\* ValidationService.validate_session_name
validate_session_name(name) ==
  IF name.raw = 0
    THEN Invalid("Session name is required and must be a string", "name")
  ELSE IF name.stripped < MIN_SESSION_NAME_LENGTH
    THEN Invalid("Session name must be at least 1 character long", "name")
  ELSE IF name.stripped > MAX_SESSION_NAME_LENGTH
    THEN Invalid("Session name cannot exceed 255 characters", "name")
  ELSE IF name.suspicious
    THEN Invalid("Session name contains potentially harmful content", "name")
  ELSE Valid

\* ------------------------------------------------------------------ store
UserId(t)  == 2 * t - 1     \* id=str(uuid4()) of the submission's user Turn
AgentId(t) == 2 * t         \* id=str(uuid4()) of the submission's assistant Turn

HasRow(msgs, id) == \E i \in 1..Len(msgs) : msgs[i].id = id

RowOf(msgs, id) == msgs[CHOOSE i \in 1..Len(msgs) : msgs[i].id = id]

SetContent(msgs, id, content) ==
  [i \in 1..Len(msgs) |->
     IF msgs[i].id = id THEN [msgs[i] EXCEPT !.content = content] ELSE msgs[i]]

OfSession(msgs, s) == SelectSeq(msgs, LAMBDA m : m.session_id = s)

\* POST /sessions/: create_session adds one row with a fresh id.
CreateSession(s) ==
  /\ s \notin db_ever
  /\ \A r \in SessionIds : r < s => r \in db_ever
  /\ db_sessions' = db_sessions \cup {s}
  /\ db_ever' = db_ever \cup {s}
  /\ RegistryIdle
  /\ UNCHANGED <<wsVars, api_key, reply, db_messages, db_failures, taskVars>>

\* A delete that removes the session row and leaves its messages.
DeleteSessionNoCascade(s) ==
  /\ s \in db_sessions
  /\ db_sessions' = db_sessions \ {s}
  /\ RegistryIdle
  /\ UNCHANGED <<wsVars, api_key, reply, db_ever, db_messages, db_failures, taskVars>>

\* DELETE /sessions/{id}: delete_session removes the row; the relationship
\* Session.messages (cascade="all, delete-orphan") removes its messages.
DeleteSession(s) ==
  /\ s \in db_sessions
  /\ db_sessions' = db_sessions \ {s}
  /\ db_messages' = SelectSeq(db_messages, LAMBDA m : m.session_id # s)
  /\ RegistryIdle
  /\ UNCHANGED <<wsVars, api_key, reply, db_ever, db_failures, taskVars>>

\* ------------------------------------------------- service layer requests
\* str(e) of the exception of a commit that inserts a row.
InsertFailed == "OperationalError on INSERT"

MaxSessions == 2

NoName == [raw |-> 0, stripped |-> 0, suspicious |-> FALSE]

\* The answer of a request: the exception raised ("none" when it returned),
\* its field_name and message, and for the health check the fields returned.
Reply(op, name, select, raised, field_name, message, status, ai_provider) ==
  [op |-> op, name |-> name, select |-> select, raised |-> raised,
   field_name |-> field_name, message |-> message,
   status |-> status, ai_provider |-> ai_provider]

NoReply == Reply("none", NoName, FALSE, "none", "none", <<>>, "none", "none")

\* SQLAlchemySessionRepository.create, as [raised, message, added]. The
\* ValidationError is raised inside the try block and is no SQLAlchemyError,
\* so the clause `except Exception` rolls back and raises RepositoryError.
repository_create(name, commit_ok) ==
  LET v == validate_session_name(name) IN
    IF ~v.is_valid
      THEN [raised |-> "RepositoryError",
            message |-> <<"Unexpected error creating session: ", v.error_message>>,
            added |-> FALSE]
    ELSE IF ~commit_ok
      THEN [raised |-> "RepositoryError",
            message |-> <<"Failed to create session: ", InsertFailed>>,
            added |-> FALSE]
    ELSE [raised |-> "none", message |-> <<>>, added |-> TRUE]

\* SessionService.create_session: a RepositoryError becomes a ServiceError.
service_create(name, commit_ok) ==
  LET r == repository_create(name, commit_ok) IN
    IF r.raised = "RepositoryError"
      THEN Reply("create_session", name, FALSE, "ServiceError", "none",
                 <<"Failed to create session: ">> \o r.message, "none", "none")
    ELSE Reply("create_session", name, FALSE, "none", "none", <<>>, "none", "none")

\* SessionService.create_session(SessionCreate(name)) with a fresh row id.
SvcCreateSession(name, commit_ok) ==
  /\ \E s \in 1..MaxSessions :
       /\ s \notin db_ever
       /\ \A r \in 1..MaxSessions : r < s => r \in db_ever
       /\ reply' = service_create(name, commit_ok)
       /\ db_sessions' = IF reply'.raised = "none" THEN db_sessions \cup {s} ELSE db_sessions
       /\ db_ever' = IF reply'.raised = "none" THEN db_ever \cup {s} ELSE db_ever
  /\ UNCHANGED <<regVars, wsVars, api_key, db_messages, db_failures, taskVars>>

Unhealthy(select) ==
  Reply("health_check", NoName, select, "HTTPException", "none",
        <<"Service unhealthy">>, "503", "none")

Healthy(ai_provider) ==
  Reply("health_check", NoName, TRUE, "none", "none", <<>>, "healthy", ai_provider)

\* GET /api/health: select tells whether db.execute("SELECT 1") returned.
\* The provider chosen by get_ai_provider is asked is_available(); a class
\* without that method raises AttributeError, answered with status 503.
health_check(k, select) ==
  IF ~select THEN Unhealthy(select)
  ELSE IF get_ai_provider(k) \notin HasIsAvailable THEN Unhealthy(select)
  ELSE IF is_available(k) THEN Healthy("available") ELSE Healthy("fallback")

HealthCheck(select) ==
  /\ reply' = health_check(api_key, select)
  /\ UNCHANGED <<regVars, wsVars, api_key, dbVars, taskVars>>

\* ----------------------------------------------------------------- events
Progress(step, message) == [type |-> "agent_progress", step |-> step, message |-> message]
Response(content, id)   == [type |-> "agent_response", content |-> content, message_id |-> id]
ErrorEvent(message)     == [type |-> "error", message |-> message]

\* send_message on a registry that creates the key it looks up.
EmitCreatingKey(t, e) ==
  /\ active_connections' =
       [k \in DOMAIN active_connections \cup {t_sess[t]} |->
          IF k \in DOMAIN active_connections THEN active_connections[k] ELSE <<>>]
  /\ fan' = [fan EXCEPT ![t] = StartFrame(active_connections, t_sess[t], e)]
  /\ call' = [Gc(call) EXCEPT ![t] = StartCall(active_connections, t_sess[t], e)]
  /\ t_emitted' = [t_emitted EXCEPT ![t] = Append(@, e)]
  /\ last_disconnects' = <<>>
  /\ last_connect' = NoConnect

\* websocket_callback(message), or broadcast_to_session, of submission t:
\* send_message(session_id, message) up to its first await.
Emit(t, e) ==
  /\ fan' = [fan EXCEPT ![t] = StartFrame(active_connections, t_sess[t], e)]
  /\ call' = [Gc(call) EXCEPT ![t] = StartCall(active_connections, t_sess[t], e)]
  /\ t_emitted' = [t_emitted EXCEPT ![t] = Append(@, e)]
  /\ last_disconnects' = <<>>
  /\ last_connect' = NoConnect
  /\ UNCHANGED active_connections

\* ------------------------------------------------------ fallback generator
\* A user message is a sequence of words.  WordKeys(w): which of the tested
\* substrings occur in w.lower() ("?" is tested on the message as written).
WordKeys(w) ==
  CASE w = "weather"  -> {"weather"}
    [] w = "Weather"  -> {"weather"}
    [] w = "Dubai?"   -> {"dubai", "?"}
    [] w = "Dubai!"   -> {"dubai"}
    [] w = "dubai"    -> {"dubai"}
    [] w = "Search"   -> {"search"}
    [] w = "help"     -> {"help"}
    [] w = "hello"    -> {"hello"}
    [] w = "Hi"       -> {"hi"}
    [] w = "this"     -> {"hi"}
    [] w = "why?"     -> {"?"}
    [] OTHER          -> {}

MessageKeys(m) == UNION {WordKeys(m[i]) : i \in 1..Len(m)}

\* The chain with the search test placed before the weather test.
CategorySearchFirst(m) ==
  LET k == MessageKeys(m) IN
  IF "search" \in k THEN "search"
  ELSE IF "weather" \in k THEN (IF "dubai" \in k THEN "weather_dubai" ELSE "weather")
  ELSE IF "help" \in k THEN "help"
  ELSE IF "hello" \in k \/ "hi" \in k THEN "greeting"
  ELSE IF "?" \in k THEN "question"
  ELSE "generic"

\* The if/elif chain of _generate_fallback_response.
Category(m) ==
  LET k == MessageKeys(m) IN
  IF "weather" \in k THEN (IF "dubai" \in k THEN "weather_dubai" ELSE "weather")
  ELSE IF "search" \in k THEN "search"
  ELSE IF "help" \in k THEN "help"
  ELSE IF "hello" \in k \/ "hi" \in k THEN "greeting"
  ELSE IF "?" \in k THEN "question"
  ELSE "generic"

\* response.split() of the template chosen: the leading words of each text,
\* the user message standing where the f-string embeds it.
FallbackText(m) ==
  LET c == Category(m) IN
  CASE c = "weather_dubai" -> <<"I'd", "be", "happy", "to", "help", "you", "find",
                                "weather", "information", "for", "Dubai!">>
    [] c = "weather"  -> <<"I'd", "be", "happy", "to", "help", "you", "find",
                           "weather", "information", "for">> \o m
    [] c = "search"   -> <<"I'd", "be", "happy", "to", "help", "you", "search",
                           "for", "information", "about">> \o m
    [] c = "help"     -> <<"I'm", "here", "to", "help!">>
    [] c = "greeting" -> <<"Hello!", "I'm", "your", "AI", "assistant,">>
    [] c = "question" -> <<"That's", "a", "great", "question", "about">> \o m
    [] OTHER          -> <<"I", "understand", "you're", "asking", "about">> \o m

ChunkSize == 3

\* words[i:i+2] under the same step of three.
SliceTwo(words, i) ==
  SubSeq(words, i + 1, IF i + 2 < Len(words) THEN i + 2 ELSE Len(words))

\* words[i:i+3]
Slice(words, i) ==
  SubSeq(words, i + 1, IF i + ChunkSize < Len(words) THEN i + ChunkSize ELSE Len(words))

\* The pipeline carries the first MaxWords words of a fallback response.
Abbrev(words) == SubSeq(words, 1, IF Len(words) < MaxWords THEN Len(words) ELSE MaxWords)

FallbackWords(m) == Abbrev(FallbackText(m))

\* --------------------------------------------------------- primary generator
\* The text deltas of the stream: arbitrary text, here fixed tokens.
DeltaText(k) == IF k % 2 = 1 THEN "Paris" ELSE "rocks"

SystemPrompt == <<"You are a helpful AI assistant">>

AsMessage(row) == [role |-> row.role, content |-> row.content]

\* _get_conversation_history
ConversationHistory(msgs, s) ==
  [i \in 1..Len(OfSession(msgs, s)) |-> AsMessage(OfSession(msgs, s)[i])]

\* messages of _call_claude_api: "conversation_history[:-1]" between the
\* system prompt and the current user message.
ClaudeMessages(msgs, s, user_message) ==
  LET h == ConversationHistory(msgs, s) IN
  <<[role |-> "system", content |-> SystemPrompt]>>
  \o (IF Len(h) = 0 THEN <<>> ELSE SubSeq(h, 1, Len(h) - 1))
  \o <<[role |-> "user", content |-> user_message]>>

\* ------------------------------------------- trigger and process_message
\* POST /sessions/{session_id}/messages: the service is constructed (the
\* client exists iff the API key is set), the session is checked (404 when
\* absent) and process_message_task is handed to the background tasks.
Trigger(t, s, m) ==
  /\ t_pc[t] = "idle"
  /\ \A u \in Tasks : u < t => t_pc[u] # "idle"
  /\ t_client' = [t_client EXCEPT ![t] = HasClient(api_key)]
  /\ t_sess' = [t_sess EXCEPT ![t] = s]
  /\ t_text' = [t_text EXCEPT ![t] = m]
  /\ t_pc' = [t_pc EXCEPT ![t] = IF s \in db_sessions THEN "queued" ELSE "http404"]
  /\ RegistryIdle
  /\ UNCHANGED <<wsVars, api_key, reply, dbVars,
                 t_request, t_full, t_i, t_exc, t_primary, t_fallback, t_writes, t_emitted>>

\* The session check placed after the user Turn is saved.
SessionMissingAfterSave(t) ==
  /\ t_exc' = [t_exc EXCEPT ![t] = "Session not found"]
  /\ Emit(t, ErrorEvent(<<"Session not found">>))
  /\ t_pc' = [t_pc EXCEPT ![t] = "last"]
  /\ db_messages' = Append(db_messages,
                           [id |-> UserId(t), session_id |-> t_sess[t], role |-> "user",
                            content |-> t_text[t]])

\* The exception of a missing session lost by the background task.
SessionMissingSilently(t) ==
  /\ t_exc' = [t_exc EXCEPT ![t] = "Session not found"]
  /\ t_pc' = [t_pc EXCEPT ![t] = "last"]
  /\ RegistryIdle
  /\ UNCHANGED <<db_messages, t_emitted>>

\* "if not session: raise ValueError(...)": nothing has been written; the
\* task's except clause broadcasts the error event.
SessionMissing(t) ==
  /\ t_exc' = [t_exc EXCEPT ![t] = "Session not found"]
  /\ Emit(t, ErrorEvent(<<"Session not found">>))
  /\ t_pc' = [t_pc EXCEPT ![t] = "last"]
  /\ UNCHANGED db_messages

\* The initial progress event sent before the assistant Turn is created.
ProcessStartEventFirst(t) ==
  /\ t_pc[t] = "queued"
  /\ IF t_sess[t] \notin db_sessions
       THEN SessionMissing(t)
       ELSE /\ db_messages' = Append(db_messages,
                   [id |-> UserId(t), session_id |-> t_sess[t], role |-> "user",
                    content |-> t_text[t]])
            /\ Emit(t, Progress("thinking", <<"Processing your request...">>))
            /\ t_pc' = [t_pc EXCEPT ![t] = "generate"]
            /\ UNCHANGED t_exc
  /\ UNCHANGED <<wsVars, api_key, reply, db_sessions, db_ever, db_failures, t_sess, t_text,
                 t_client, t_request, t_full, t_i, t_primary, t_fallback, t_writes>>

\* One of the two commits before the try statement raises: the commit of
\* the user Turn (nothing is stored) or the commit of the assistant Turn
\* (the user Turn is stored).  No except clause of process_message applies;
\* process_message_task catches the exception and broadcasts the error event.
StartCommitFails(t, user_saved) ==
  /\ db_failures < MaxDbFailures
  /\ db_failures' = db_failures + 1
  /\ db_messages' =
       IF user_saved
         THEN Append(db_messages, [id |-> UserId(t), session_id |-> t_sess[t],
                                   role |-> "user", content |-> t_text[t]])
         ELSE db_messages
  /\ t_exc' = [t_exc EXCEPT ![t] = InsertFailed]
  /\ Emit(t, ErrorEvent(<<InsertFailed>>))
  /\ t_pc' = [t_pc EXCEPT ![t] = "last"]

\* process_message from its start to its first await.  Session absent:
\* ValueError, which process_message_task catches and broadcasts as an error
\* event.  Otherwise the user Turn and the empty assistant Turn are committed
\* and the initial progress event is sent, unless one of the commits raises.
ProcessStart(t) ==
  /\ t_pc[t] = "queued"
  /\ IF t_sess[t] \notin db_sessions
       THEN SessionMissing(t) /\ UNCHANGED db_failures
       ELSE \/ /\ db_messages' = db_messages \o
                    << [id |-> UserId(t), session_id |-> t_sess[t], role |-> "user",
                        content |-> t_text[t]],
                       [id |-> AgentId(t), session_id |-> t_sess[t], role |-> "assistant",
                        content |-> <<>>] >>
               /\ Emit(t, Progress("thinking", <<"Processing your request...">>))
               /\ t_pc' = [t_pc EXCEPT ![t] = "generate"]
               /\ UNCHANGED <<t_exc, db_failures>>
            \/ \E user_saved \in BOOLEAN : StartCommitFails(t, user_saved)
  /\ UNCHANGED <<wsVars, api_key, reply, db_sessions, db_ever, t_sess, t_text,
                 t_client, t_request, t_full, t_i, t_primary, t_fallback, t_writes>>

\* _generate_fallback_response up to its first await (the "fallback" event).
FallbackBegin(t) ==
  /\ Emit(t, Progress("fallback", <<"Using fallback response system...">>))
  /\ t_fallback' = [t_fallback EXCEPT ![t] = TRUE]
  /\ t_pc' = [t_pc EXCEPT ![t] = "f_sleep"]
  /\ t_i' = [t_i EXCEPT ![t] = 0]

\* Selection started without awaiting the initial progress event's fanout.
GenerateWithoutAwait(t) ==
  /\ t_pc[t] = "generate"
  /\ IF t_client[t]
       THEN /\ t_request' = [t_request EXCEPT ![t] =
                               ClaudeMessages(db_messages, t_sess[t], t_text[t])]
            /\ Emit(t, Progress("generating", <<"Generating response with Claude...">>))
            /\ t_primary' = [t_primary EXCEPT ![t] = "running"]
            /\ t_pc' = [t_pc EXCEPT ![t] = "p_stream"]
            /\ UNCHANGED <<t_fallback, t_i>>
       ELSE /\ FallbackBegin(t)
            /\ UNCHANGED <<t_request, t_primary>>
  /\ UNCHANGED <<wsVars, api_key, reply, dbVars, t_sess, t_text, t_client, t_full, t_exc, t_writes>>

\* Selection that never tries the Primary generator.
GenerateFallbackOnly(t) ==
  /\ t_pc[t] = "generate" /\ fan[t].state = "idle"
  /\ FallbackBegin(t)
  /\ UNCHANGED <<t_request, t_primary>>
  /\ UNCHANGED <<wsVars, api_key, reply, dbVars, t_sess, t_text, t_client, t_full, t_exc, t_writes>>

\* After the initial progress event: "if self.anthropic_client" chooses the
\* generator.  _call_claude_api reads the history, builds the messages and
\* sends the "generating" event.
Generate(t) ==
  /\ t_pc[t] = "generate" /\ fan[t].state = "idle"
  /\ IF t_client[t]
       THEN /\ t_request' = [t_request EXCEPT ![t] =
                               ClaudeMessages(db_messages, t_sess[t], t_text[t])]
            /\ Emit(t, Progress("generating", <<"Generating response with Claude...">>))
            /\ t_primary' = [t_primary EXCEPT ![t] = "running"]
            /\ t_pc' = [t_pc EXCEPT ![t] = "p_stream"]
            /\ UNCHANGED <<t_fallback, t_i>>
       ELSE /\ FallbackBegin(t)
            /\ UNCHANGED <<t_request, t_primary>>
  /\ UNCHANGED <<wsVars, api_key, reply, dbVars, t_sess, t_text, t_client, t_full, t_exc, t_writes>>

\* The stream yields a text delta: it is appended and sent as "streaming".
PrimaryDelta(t) ==
  /\ t_pc[t] = "p_stream" /\ fan[t].state = "idle"
  /\ KeyAccepted(api_key)
  /\ Len(t_full[t]) < MaxChunks
  /\ LET d == DeltaText(Len(t_full[t]) + 1) IN
       /\ t_full' = [t_full EXCEPT ![t] = Append(@, d)]
       /\ Emit(t, Progress("streaming", <<d>>))
  /\ UNCHANGED <<wsVars, api_key, reply, dbVars, t_pc, t_sess, t_text, t_client, t_request,
                 t_i, t_exc, t_primary, t_fallback, t_writes>>

\* messages.create or the stream raises: "except Exception as claude_error"
\* answers the request with the Fallback generator.
PrimaryRaise(t) ==
  /\ t_pc[t] = "p_stream" /\ fan[t].state = "idle"
  /\ t_primary' = [t_primary EXCEPT ![t] = "raised"]
  /\ t_request' = [t_request EXCEPT ![t] = <<>>]
  /\ FallbackBegin(t)
  /\ UNCHANGED <<wsVars, api_key, reply, dbVars, t_sess, t_text, t_client, t_full, t_exc, t_writes>>

\* The agent_response event sent without the content being committed.
RespondWithoutCommit(t, content) ==
  /\ UNCHANGED <<db_messages, t_writes>>
  /\ Emit(t, Response(content, AgentId(t)))

\* "agent_msg.content = response_content; self.db.commit()", then the
\* agent_response event.
CommitAndRespond(t, content) ==
  /\ db_messages' = SetContent(db_messages, AgentId(t), content)
  /\ t_writes' = [t_writes EXCEPT ![t] = @ + 1]
  /\ Emit(t, Response(content, AgentId(t)))

\* process_message after the generator returned response_content.  The
\* content is committed and the agent_response event sent.  When that commit
\* raises (dbok false) the except clause assigns the error text and commits
\* again: if this commit succeeds (dbok2) a progress event with step "error"
\* is sent and the exception re-raised; if it raises too (the session was
\* never rolled back) its exception leaves process_message at once.  When
\* the row is gone (the session was deleted) the UPDATE matches no row:
\* StaleDataError, and the commit of the except clause raises as well.
\* Either way process_message_task broadcasts the error event.
Finish(t, content, dbok, dbok2) ==
  LET present == HasRow(db_messages, AgentId(t))
      e       == IF present THEN "OperationalError" ELSE "StaleDataError"
      errmsg  == <<"Error processing message:", e>>
  IN IF present /\ dbok
       THEN /\ dbok2
            /\ CommitAndRespond(t, content)
            /\ t_pc' = [t_pc EXCEPT ![t] = "last"]
            /\ UNCHANGED <<t_exc, db_failures>>
       ELSE IF present /\ dbok2
         THEN /\ db_failures < MaxDbFailures
              /\ db_failures' = db_failures + 1
              /\ db_messages' = SetContent(db_messages, AgentId(t), errmsg)
              /\ t_writes' = [t_writes EXCEPT ![t] = @ + 1]
              /\ Emit(t, Progress("error", errmsg))
              /\ t_pc' = [t_pc EXCEPT ![t] = "reraise"]
              /\ t_exc' = [t_exc EXCEPT ![t] = e]
         ELSE /\ present => db_failures < MaxDbFailures
              /\ ~present => dbok /\ dbok2
              /\ db_failures' = IF present THEN db_failures + 1 ELSE db_failures
              /\ Emit(t, ErrorEvent(<<e>>))
              /\ t_pc' = [t_pc EXCEPT ![t] = "last"]
              /\ t_exc' = [t_exc EXCEPT ![t] = e]
              /\ UNCHANGED <<db_messages, t_writes>>

\* The stream ends: _call_claude_api returns full_response.
PrimaryReturn(t) ==
  /\ t_pc[t] = "p_stream" /\ fan[t].state = "idle"
  /\ KeyAccepted(api_key)
  /\ t_primary' = [t_primary EXCEPT ![t] = "ok"]
  /\ t_request' = [t_request EXCEPT ![t] = <<>>]
  /\ \E dbok \in BOOLEAN, dbok2 \in BOOLEAN : Finish(t, t_full[t], dbok, dbok2)
  /\ UNCHANGED <<wsVars, api_key, reply, db_sessions, db_ever, t_sess, t_text, t_client,
                 t_full, t_i, t_fallback>>

\* _generate_fallback_response after a sleep: the next chunk of three words
\* is sent, or the loop is over and the response is returned.
FallbackStepOn(t, words) ==
  /\ t_pc[t] \in {"f_sleep", "f_loop"} /\ fan[t].state = "idle"
  /\ IF t_i[t] < Len(words)
       THEN /\ Emit(t, Progress("streaming", Slice(words, t_i[t])))
            /\ t_i' = [t_i EXCEPT ![t] = @ + ChunkSize]
            /\ t_pc' = [t_pc EXCEPT ![t] = "f_loop"]
            /\ UNCHANGED <<db_messages, db_failures, t_exc, t_writes>>
       ELSE /\ \E dbok \in BOOLEAN, dbok2 \in BOOLEAN : Finish(t, words, dbok, dbok2)
            /\ UNCHANGED t_i
  /\ UNCHANGED <<wsVars, api_key, reply, db_sessions, db_ever, t_sess, t_text, t_client,
                 t_request, t_full, t_primary, t_fallback>>

\* A Fallback answer appended to the text the Primary stream had delivered.
FallbackStepAfterPartial(t) == FallbackStepOn(t, t_full[t] \o FallbackWords(t_text[t]))

\* The generator on the abbreviated response.
FallbackStep(t) == FallbackStepOn(t, FallbackWords(t_text[t]))

\* The generator on the whole response.
FallbackFull(t) == FallbackStepOn(t, FallbackText(t_text[t]))

\* A background task that swallows the exception without broadcasting.
ReraiseSilently(t) ==
  /\ t_pc[t] = "reraise" /\ fan[t].state = "idle"
  /\ t_pc' = [t_pc EXCEPT ![t] = "last"]
  /\ RegistryIdle
  /\ UNCHANGED <<wsVars, api_key, reply, dbVars, t_sess, t_text, t_client, t_request,
                 t_full, t_i, t_exc, t_primary, t_fallback, t_writes, t_emitted>>

\* "raise e" at the end of the except clause: process_message_task catches
\* it and broadcasts the error event.
Reraise(t) ==
  /\ t_pc[t] = "reraise" /\ fan[t].state = "idle"
  /\ Emit(t, ErrorEvent(<<t_exc[t]>>))
  /\ t_pc' = [t_pc EXCEPT ![t] = "last"]
  /\ UNCHANGED <<wsVars, api_key, reply, dbVars, t_sess, t_text, t_client, t_request,
                 t_full, t_i, t_exc, t_primary, t_fallback, t_writes>>

\* The background task of submission t has run to its end.
Finished(t) == t_pc[t] = "last" /\ fan[t].state = "idle"

\* ---------------------------------------------------------- specification
InitRegistry ==
  /\ active_connections = <<>>
  /\ fan = [p \in Procs |-> IdleFrame]
  /\ call = [p \in Procs |-> NoCall]
  /\ last_disconnects = <<>>
  /\ last_connect = NoConnect

InitWs ==
  /\ ws_pc = [c \in Conns |-> "new"]
  /\ ws_sess = [c \in Conns |-> 0]
  /\ ws_open = [c \in Conns |-> FALSE]
  /\ ws_msgs = [c \in Conns |-> 0]

InitStore ==
  /\ api_key \in ApiKeys
  /\ reply = NoReply
  /\ db_sessions = {}
  /\ db_ever = {}
  /\ db_messages = <<>>
  /\ db_failures = 0

InitTasks ==
  /\ t_pc = [t \in Tasks |-> "idle"]
  /\ t_sess = [t \in Tasks |-> 0]
  /\ t_text = [t \in Tasks |-> <<>>]
  /\ t_client = [t \in Tasks |-> FALSE]
  /\ t_request = [t \in Tasks |-> <<>>]
  /\ t_full = [t \in Tasks |-> <<>>]
  /\ t_i = [t \in Tasks |-> 0]
  /\ t_exc = [t \in Tasks |-> "none"]
  /\ t_primary = [t \in Tasks |-> "none"]
  /\ t_fallback = [t \in Tasks |-> FALSE]
  /\ t_writes = [t \in Tasks |-> 0]
  /\ t_emitted = [t \in Tasks |-> <<>>]

Init == InitRegistry /\ InitWs /\ InitStore /\ InitTasks

\* The whole program: sessions, submissions and the clients in Listeners.
Next ==
  \/ \E c \in Listeners, s \in SessionIds : WsConnect(c, s)
  \/ \E c \in Listeners, s \in SessionIds : WsAcceptFail(c, s)
  \/ \E c \in Listeners : WsReceive(c)
  \/ \E c \in Listeners : WsClose(c)
  \/ \E c \in Listeners : ChannelBreak(c)
  \/ \E p \in Procs : FanoutStep(p)
  \/ \E s \in SessionIds : CreateSession(s)
  \/ \E s \in SessionIds : DeleteSession(s)
  \/ \E t \in Tasks, s \in SessionIds : Trigger(t, s, TextOf[t])
  \/ \E t \in Tasks : ProcessStart(t)
  \/ \E t \in Tasks : Generate(t)
  \/ \E t \in Tasks : PrimaryDelta(t)
  \/ \E t \in Tasks : PrimaryRaise(t)
  \/ \E t \in Tasks : PrimaryReturn(t)
  \/ \E t \in Tasks : FallbackStep(t)
  \/ \E t \in Tasks : Reraise(t)

Spec == Init /\ [][Next]_vars

LiveTasks == {1}

\* A task that is dropped when process_message re-raises.
ResumeUntilRaise(t) ==
  \/ FanoutStep(t)
  \/ ProcessStart(t)
  \/ Generate(t)
  \/ PrimaryDelta(t)
  \/ PrimaryRaise(t)
  \/ PrimaryReturn(t)
  \/ FallbackStep(t)

\* The next resumption of the coroutine of submission t: the send it awaits
\* returns or raises, or the generator call it awaits yields, returns or raises.
Resume(t) ==
  \/ FanoutStep(t)
  \/ ProcessStart(t)
  \/ Generate(t)
  \/ PrimaryDelta(t)
  \/ PrimaryRaise(t)
  \/ PrimaryReturn(t)
  \/ FallbackStep(t)
  \/ Reraise(t)

\* The event loop resumes every coroutine whose awaited call has returned or
\* raised; BackgroundTasks runs the task whether or not the caller waits.
Fairness == \A t \in LiveTasks : WF_vars(Resume(t))

\* One submission next to a client that connects, talks and leaves, and to
\* the creation and deletion of the conversation.
NextLive ==
  \/ \E c \in Listeners, s \in SessionIds : WsConnect(c, s)
  \/ \E c \in Listeners : WsReceive(c)
  \/ \E c \in Listeners : WsClose(c)
  \/ \E c \in Listeners : ChannelBreak(c)
  \/ \E c \in Listeners : FanoutStep(c)
  \/ \E s \in SessionIds : CreateSession(s)
  \/ \E s \in SessionIds : DeleteSession(s)
  \/ \E t \in LiveTasks, s \in SessionIds : Trigger(t, s, TextOf[t])
  \/ \E t \in LiveTasks : Resume(t)

SpecLive == Init /\ [][NextLive]_vars /\ Fairness

\* The Fallback generator on its own: no credential, no client attached,
\* one submission with any message of Messages.
InitFb == Init /\ api_key.len = 0

NextFb ==
  \/ \E s \in SessionIds : CreateSession(s)
  \/ \E s \in SessionIds, m \in Messages : Trigger(1, s, m)
  \/ ProcessStart(1)
  \/ Generate(1)
  \/ FallbackFull(1)
  \/ Reraise(1)

SpecFb == InitFb /\ [][NextFb]_vars

\* The clients alone: every connection of Conns, no submission.
NextWs ==
  \/ \E c \in Conns, s \in SessionIds : WsConnect(c, s)
  \/ \E c \in Conns, s \in SessionIds : WsAcceptFail(c, s)
  \/ \E c \in Conns : WsReceive(c)
  \/ \E c \in Conns : WsClose(c)
  \/ \E c \in Conns : ChannelBreak(c)
  \/ \E c \in Conns : FanoutStep(c)

SpecWs == Init /\ [][NextWs]_vars

\* The registry under direct calls, as a library: any caller may connect
\* any connection at any time, detach it, break its channel and fan out.
ApiConnect(c, s) ==
  /\ Len(IF s \in DOMAIN active_connections THEN active_connections[s] ELSE <<>>) < MaxList
  /\ LET ac2 == Connect(active_connections, c, s) IN
       /\ active_connections' = ac2
       /\ call' = ObserveCall(Gc(call), fan, active_connections, ac2)
       /\ last_connect' = [conn |-> c, sid |-> s, before |-> active_connections,
                           after |-> ac2, raised |-> FALSE]
  /\ ws_open' = [ws_open EXCEPT ![c] = TRUE]
  /\ last_disconnects' = <<>>
  /\ UNCHANGED <<fan, ws_pc, ws_sess, ws_msgs, api_key, reply, dbVars, taskVars>>

ApiDisconnect(c, s) ==
  /\ LET ac2 == Disconnect(active_connections, c, s).ac IN
       /\ active_connections' = ac2
       /\ fan' = ObserveFan(fan, active_connections, ac2)
       /\ call' = ObserveCall(Gc(call), fan, active_connections, ac2)
       /\ last_disconnects' = <<DisconnectEntry(active_connections, c, s)>>
  /\ last_connect' = NoConnect
  /\ UNCHANGED <<wsVars, api_key, reply, dbVars, taskVars>>

ApiBreak(c) ==
  /\ ws_open[c]
  /\ ws_open' = [ws_open EXCEPT ![c] = FALSE]
  /\ RegistryIdle
  /\ UNCHANGED <<ws_pc, ws_sess, ws_msgs, api_key, reply, dbVars, taskVars>>

ApiSendMessage(p, s) ==
  /\ fan[p].state = "idle"
  /\ fan' = [fan EXCEPT ![p] = StartFrame(active_connections, s, [type |-> "api"])]
  /\ call' = [Gc(call) EXCEPT ![p] = StartCall(active_connections, s, [type |-> "api"])]
  /\ last_disconnects' = <<>>
  /\ last_connect' = NoConnect
  /\ UNCHANGED <<active_connections, wsVars, api_key, reply, dbVars, taskVars>>

NextApi ==
  \/ \E c \in Conns, s \in SessionIds : ApiConnect(c, s)
  \/ \E c \in Conns, s \in SessionIds : ApiDisconnect(c, s)
  \/ \E c \in Conns : ApiBreak(c)
  \/ \E s \in SessionIds : ApiSendMessage(1, s)
  \/ FanoutStep(1)

SpecApi == Init /\ [][NextApi]_vars

\* Two conversations: clients attach to either, one submission goes to
\* either, without a credential.
Rooms == {1, 2}

InitIso == Init /\ api_key.len = 0

NextIso ==
  \/ \E c \in Conns, s \in Rooms : WsConnect(c, s)
  \/ \E c \in Conns : WsReceive(c)
  \/ \E c \in Conns : WsClose(c)
  \/ \E c \in Conns : ChannelBreak(c)
  \/ \E p \in Procs : FanoutStep(p)
  \/ \E s \in Rooms : CreateSession(s)
  \/ \E s \in Rooms : Trigger(1, s, TextOf[1])
  \/ ProcessStart(1)
  \/ Generate(1)
  \/ FallbackStep(1)
  \/ Reraise(1)

SpecIso == InitIso /\ [][NextIso]_vars

\* The service layer: session creation through SessionService, deletion, and
\* the health check.
NextSvc ==
  \/ \E name \in Names, commit_ok \in BOOLEAN : SvcCreateSession(name, commit_ok)
  \/ \E s \in 1..MaxSessions : DeleteSession(s)
  \/ \E select \in BOOLEAN : HealthCheck(select)

SpecSvc == Init /\ [][NextSvc]_vars

\* ================================================================= claims
Terminal(e) == e.type \in {"agent_response", "error"}

TerminalCount(t) ==
  Cardinality({i \in 1..Len(t_emitted[t]) : Terminal(t_emitted[t][i])})

ResponseEvents(t) ==
  {t_emitted[t][i] : i \in {j \in 1..Len(t_emitted[t]) : t_emitted[t][j].type = "agent_response"}}

\* C1: a submission emits at most one terminal event (agent_response or
\* error), nothing after it, and exactly one once its background task has
\* run to the end.
C1_OneTerminalEventLast ==
  \A t \in Tasks :
    /\ TerminalCount(t) <= 1
    /\ TerminalCount(t) = 1 => Terminal(t_emitted[t][Len(t_emitted[t])])
    /\ Finished(t) => TerminalCount(t) = 1

C1_Witness ==
  \E t \in Tasks, u \in Tasks :
    /\ Finished(t) /\ t_emitted[t][Len(t_emitted[t])].type = "agent_response"
    /\ Finished(u) /\ t_emitted[u][Len(t_emitted[u])].type = "error"
    /\ Len(t_emitted[u]) > 1

\* C2 as stated: in every state in which an agent_response event has been
\* sent, the Turn named by its message_id is stored with the event's content.
C2_StoredEqualsEventAlways ==
  \A t \in Tasks : \A e \in ResponseEvents(t) :
    /\ HasRow(db_messages, e.message_id)
    /\ RowOf(db_messages, e.message_id).content = e.content

\* C2 amended: once an agent_response event has been sent, and as long as
\* the conversation has not been deleted, the Turn named by its message_id is
\* stored with the event's content.
C2_StoredEqualsEventWhileExists ==
  \A t \in Tasks : \A e \in ResponseEvents(t) :
    t_sess[t] \in db_sessions =>
      /\ HasRow(db_messages, e.message_id)
      /\ RowOf(db_messages, e.message_id).content = e.content

C2_Witness ==
  \E t \in Tasks :
    /\ ResponseEvents(t) # {} /\ Finished(t) /\ t_sess[t] \in db_sessions
    /\ RowOf(db_messages, AgentId(t)).content # <<>>

\* C3: when a send of a send_message call failed, every other connection
\* that was attached from the start of the call to its end has received the
\* event, and the failed connections are not attached when it returns.
C3_FanoutIsolation ==
  \A p \in Procs :
    (call[p].done /\ call[p].failed # {}) =>
      /\ (call[p].start \ (call[p].dropped \cup call[p].failed)) \subseteq call[p].got
      /\ call[p].failed \cap call[p].endset = {}

\* C4: a send_message call has delivered the event to every connection that
\* was attached when it started and is attached when it returns.
C4_FanoutCoversAttached ==
  \A p \in Procs :
    call[p].done => (call[p].start \cap call[p].endset) \subseteq call[p].got

\* C5: a send_message call sends only to connections that were attached when
\* it started.
C5_RecipientsCapturedAtCall ==
  \A p \in Procs : call[p].tried \subseteq call[p].start

C7_DetachNonMemberNoOp ==
  \A i \in 1..Len(last_disconnects) :
    LET d == last_disconnects[i] IN
      /\ ~d.raised
      /\ d.conn \notin Attached(d.before, d.sid) => d.after = d.before
      /\ d.conn \notin Attached(d.after, d.sid)

C7_Witness ==
  \E i \in 1..Len(last_disconnects) :
    LET d == last_disconnects[i] IN
      /\ d.sid \in DOMAIN d.before
      /\ d.conn \notin Attached(d.before, d.sid)

\* C8: no key of active_connections maps to an empty list.
C8_NoEmptyList ==
  \A s \in DOMAIN active_connections : Len(active_connections[s]) > 0

C8_Witness ==
  \E i \in 1..Len(last_disconnects) :
    LET d == last_disconnects[i] IN
      /\ d.sid \in DOMAIN d.before
      /\ d.sid \notin DOMAIN d.after
      /\ Len(last_disconnects) > 1

\* C9: process_message for a session that is not in the store raises and
\* writes nothing: sessions and messages are unchanged by that step.
C9_NotFoundWritesNothing ==
  [][\A t \in Tasks :
       (t_pc[t] = "queued" /\ t_sess[t] \notin db_sessions /\ t_pc'[t] # "queued")
         => /\ t_exc'[t] = "Session not found"
            /\ db_messages' = db_messages
            /\ db_sessions' = db_sessions]_vars

C9_Witness ==
  \E t \in Tasks : t_exc[t] = "Session not found" /\ Finished(t)

\* C10: with the client available every request tries Primary before any
\* Fallback; Fallback runs exactly for the requests whose Primary attempt
\* raised and then supplies the response; availability is the same for every
\* request whatever failed before.
C10_PrimaryFirstFallbackPerRequest ==
  \A t \in Tasks :
    /\ t_pc[t] \notin {"idle"} => t_client[t] = HasClient(api_key)
    /\ (t_client[t] /\ t_pc[t] \in {"p_stream", "f_sleep", "f_loop", "reraise"})
         => t_primary[t] # "none"
    /\ (t_client[t] /\ t_fallback[t]) => t_primary[t] = "raised"
    /\ t_primary[t] = "raised" => t_fallback[t]
    /\ t_primary[t] = "ok" => ~t_fallback[t]
    /\ t_primary[t] = "raised" =>
         \A e \in ResponseEvents(t) : e.content = FallbackWords(t_text[t])

C10_Witness ==
  /\ Finished(1) /\ t_primary[1] = "raised" /\ ResponseEvents(1) # {}
  /\ Finished(2) /\ t_primary[2] = "ok" /\ ResponseEvents(2) # {}

\* C11: with a credential that is absent or malformed (not accepted by
\* validate_api_key) no submission invokes the Primary generator.
C11_NoPrimaryWithoutValidKey ==
  \A t \in Tasks :
    ~validate_api_key(api_key) =>
      /\ t_primary[t] = "none"
      /\ \A i \in 1..Len(t_emitted[t]) :
           t_emitted[t][i] # Progress("generating", <<"Generating response with Claude...">>)

RaisedAfterTurns(t) == t_exc[t] \notin {"none", "Session not found", InsertFailed}

ErrorText(t) == <<"Error processing message:", t_exc[t]>>

\* C12: when an exception was raised after the assistant Turn was created
\* and the task has run to its end, the assistant Turn (while its
\* conversation exists) holds the error string, and the submission's last
\* event is its only error event and carries the exception's message.
C12_FailureStoresErrorAndEmits ==
  \A t \in Tasks :
    (Finished(t) /\ RaisedAfterTurns(t)) =>
      /\ t_sess[t] \in db_sessions =>
           /\ HasRow(db_messages, AgentId(t))
           /\ RowOf(db_messages, AgentId(t)).content = ErrorText(t)
      /\ t_emitted[t][Len(t_emitted[t])] = ErrorEvent(<<t_exc[t]>>)
      /\ TerminalCount(t) = 1

\* C13: after a submission's attempt has completed, its assistant Turn, if
\* stored, has non-empty content.
C13_AssistantTurnNeverEmpty ==
  \A t \in Tasks :
    (Finished(t) /\ HasRow(db_messages, AgentId(t))) =>
      RowOf(db_messages, AgentId(t)).content # <<>>

RowIndex(msgs, id) == CHOOSE i \in 1..Len(msgs) : msgs[i].id = id

Produced(t) ==
  \/ \E i \in 1..Len(t_emitted[t]) : t_emitted[t][i].type \in {"agent_progress", "agent_response"}
  \/ t_primary[t] # "none"
  \/ t_fallback[t]

C15_EventsSentInProductionOrder ==
  [][\A t \in Tasks :
       /\ fan'[t].state = "sending" =>
            fan'[t].evt = t_emitted'[t][Len(t_emitted'[t])]
       /\ t_emitted'[t] # t_emitted[t] =>
            /\ fan[t].state = "idle"
            /\ Len(t_emitted'[t]) = Len(t_emitted[t]) + 1
            /\ SubSeq(t_emitted'[t], 1, Len(t_emitted[t])) = t_emitted[t]]_vars

C15_Witness ==
  /\ fan[1].state = "sending" /\ fan[2].state = "sending"
  /\ fan[1].cur = fan[2].cur
  /\ Len(t_emitted[1]) >= 2 /\ Len(t_emitted[2]) >= 2

\* The stored Turns of the conversation, oldest first, without the assistant
\* Turn of submission t.
HistoryWithoutOwnAssistant(msgs, t) ==
  LET rows == SelectSeq(OfSession(msgs, t_sess[t]), LAMBDA m : m.id # AgentId(t))
  IN [i \in 1..Len(rows) |-> AsMessage(rows[i])]

RowsWithId(msgs, id) == Cardinality({i \in 1..Len(msgs) : msgs[i].id = id})

TurnsCreated(t) ==
  /\ t_pc[t] \notin {"idle", "http404", "queued"}
  /\ t_exc[t] \notin {"Session not found", InsertFailed}

\* C17: a submission to an existing conversation creates exactly one user
\* Turn and one assistant Turn; the user Turn keeps the submitted text; the
\* assistant Turn's content is never written twice, and has been written
\* exactly once when the submission is over.
C17_TwoTurnsOneContentWrite ==
  \A t \in Tasks :
    /\ t_writes[t] <= 1
    /\ (TurnsCreated(t) /\ t_sess[t] \in db_sessions) =>
         /\ RowsWithId(db_messages, UserId(t)) = 1
         /\ RowsWithId(db_messages, AgentId(t)) = 1
         /\ RowOf(db_messages, UserId(t)).content = t_text[t]
         /\ RowOf(db_messages, UserId(t)).role = "user"
         /\ RowOf(db_messages, AgentId(t)).role = "assistant"
         /\ Finished(t) => t_writes[t] = 1
    /\ ~TurnsCreated(t) =>
         RowsWithId(db_messages, UserId(t)) = 0 /\ RowsWithId(db_messages, AgentId(t)) = 0

\* C18: every stored Turn belongs to a conversation that is in the store.
C18_TurnsBelongToStoredConversation ==
  \A i \in 1..Len(db_messages) : db_messages[i].session_id \in db_sessions

C18_Witness ==
  \E t \in Tasks :
    /\ t_pc[t] \in {"generate", "p_stream", "f_sleep", "f_loop", "reraise"}
    /\ t_sess[t] \notin db_sessions
    /\ \E u \in Tasks : t_pc[u] = "last" /\ t_exc[u] = "StaleDataError"

\* The categories in their priority, and the first one a message matches.
Priority == <<"weather", "search", "help", "greeting", "question">>

Matches(c, k) ==
  CASE c = "weather"  -> "weather" \in k
    [] c = "search"   -> "search" \in k
    [] c = "help"     -> "help" \in k
    [] c = "greeting" -> "hello" \in k \/ "hi" \in k
    [] c = "question" -> "?" \in k

FirstMatch(m) ==
  LET k == MessageKeys(m)
      hits == {i \in 1..Len(Priority) : Matches(Priority[i], k)}
  IN IF hits = {} THEN "generic"
     ELSE Priority[CHOOSE i \in hits : \A j \in hits : i <= j]

IsPrefix(p, r) == Len(p) <= Len(r) /\ SubSeq(r, 1, Len(p)) = p

\* C19: the response of the Fallback generator is the template of the first
\* category the message matches in the priority weather, search, help,
\* greeting, '?', generic: 'weather' with 'dubai' gives a response containing
\* both, a greeting without higher keyword gives the greeting response, and
\* a message without keyword gives the generic text embedding the message.
C19_FallbackFirstMatchingCategory ==
  \A e \in ResponseEvents(1) :
    LET m == t_text[1]
        k == MessageKeys(m)
        c == FirstMatch(m)
        r == e.content
    IN /\ r = FallbackText(m)
       /\ ("weather" \in k /\ "dubai" \in k) => {"weather", "dubai"} \subseteq MessageKeys(r)
       /\ c = "weather" => IsPrefix(<<"I'd", "be", "happy", "to", "help", "you", "find", "weather">>, r)
       /\ c = "search" => IsPrefix(<<"I'd", "be", "happy", "to", "help", "you", "search">>, r)
       /\ c = "help" => IsPrefix(<<"I'm", "here", "to", "help!">>, r)
       /\ c = "greeting" => IsPrefix(<<"Hello!", "I'm", "your", "AI", "assistant,">>, r)
       /\ c = "question" => IsPrefix(<<"That's", "a", "great", "question", "about">>, r)
       /\ c = "generic" => r = <<"I", "understand", "you're", "asking", "about">> \o m

C19_Witness ==
  /\ Finished(1)
  /\ t_text[1] = <<"What's", "the", "weather", "in", "Dubai?">>
  /\ \E e \in ResponseEvents(1) : {"weather", "dubai"} \subseteq MessageKeys(e.content)

StreamingEvents(t) == SelectSeq(t_emitted[t], LAMBDA e : e.type = "agent_progress" /\ e.step = "streaming")

FallbackEvents(t) == SelectSeq(t_emitted[t], LAMBDA e : e.type = "agent_progress" /\ e.step = "fallback")

\* C20: when the Fallback generator has returned for a response of n words,
\* the events after the initial one are one 'fallback' event followed by
\* ceil(n/3) streaming events of at most 3 words each, whose words in order
\* are the response's words; the returned value is the whole response.
C20_FallbackStreamingShape ==
  (t_fallback[1] /\ t_pc[1] \in {"reraise", "last"}) =>
    LET words == FallbackText(t_text[1])
        n == Len(words)
        chunks == StreamingEvents(1)
    IN /\ Len(FallbackEvents(1)) = 1
       /\ t_emitted[1][2].step = "fallback"
       /\ Len(chunks) = (n + 2) \div 3
       /\ \A j \in 1..Len(chunks) :
            /\ t_emitted[1][2 + j] = chunks[j]
            /\ Len(chunks[j].message) \in 1..3
       /\ \A j \in 1..n :
            LET c == ((j - 1) \div 3) + 1
                w == ((j - 1) % 3) + 1
            IN /\ c <= Len(chunks)
               /\ w <= Len(chunks[c].message)
               /\ words[j] = chunks[c].message[w]
       /\ \A e \in ResponseEvents(1) : e.content = words

C20_Witness ==
  /\ Finished(1) /\ ResponseEvents(1) # {}
  /\ Len(StreamingEvents(1)) = 3
  /\ Len(FallbackText(t_text[1])) = 7

\* C21: when process_message has raised in the background task and the task
\* has handled it, the submission's last event is an error event carrying
\* the exception's message, whatever raised: the missing session, a commit
\* before generation, or the commits after it.
C21_FailureIsBroadcast ==
  \A t \in Tasks :
    (t_exc[t] # "none" /\ t_pc[t] = "last") =>
      /\ Len(t_emitted[t]) > 0
      /\ t_emitted[t][Len(t_emitted[t])] = ErrorEvent(<<t_exc[t]>>)

C21_Witness ==
  \E t \in Tasks, u \in Tasks :
    /\ Finished(t) /\ t_exc[t] = "Session not found"
    /\ Finished(u) /\ t_exc[u] = InsertFailed
    /\ HasRow(db_messages, UserId(u)) \/ t_sess[u] \notin db_sessions

\* C22: a create_session request whose name is rejected by
\* validate_session_name (empty after trimming, longer than 255 characters, or
\* of suspicious content) leaves the store as it was, and its caller receives
\* a ValidationError that carries the field name and the validation message.
C22_InvalidNameRaisesValidationError ==
  [][(/\ reply' # reply
      /\ reply'.op = "create_session"
      /\ ~validate_session_name(reply'.name).is_valid)
     => /\ db_sessions' = db_sessions
        /\ db_messages' = db_messages
        /\ reply'.raised = "ValidationError"
        /\ reply'.field_name = validate_session_name(reply'.name).field_name
        /\ reply'.message = <<validate_session_name(reply'.name).error_message>>]_vars

\* C23: when the SELECT of the health check returned, the answer is healthy,
\* with ai_provider "available" when the Primary provider is available and
\* "fallback" when get_ai_provider selected the Fallback provider.
C23_HealthyWhicheverProvider ==
  (reply.op = "health_check" /\ reply.select) =>
    /\ reply.status = "healthy"
    /\ reply.ai_provider =
         IF get_ai_provider(api_key) = "AnthropicProvider" THEN "available" ELSE "fallback"

\* C24: a connection whose websocket_endpoint handler has terminated, for
\* whatever reason, is registered under no conversation; the handler stays
\* terminated, so this holds from then on.
C24_TerminatedIsUnregistered ==
  \A c \in Conns :
    ws_pc[c] = "closed" =>
      \A s \in DOMAIN active_connections : c \notin Attached(active_connections, s)

\* A handler that was registered has just terminated next to another
\* connection that is still attached.
C24_Witness ==
  \E c \in Conns, d \in Conns :
    /\ c # d
    /\ ws_pc[c] = "closed"
    /\ Len(last_disconnects) = 1
    /\ last_disconnects[1].conn = c
    /\ c \in Attached(last_disconnects[1].before, ws_sess[c])
    /\ d \in Attached(active_connections, ws_sess[c])

\* The states of a submission that one step of its coroutine passes through,
\* in order; no suspension point lies between the checks and writes at the
\* start of process_message, so one step can pass several of them.
StepPath(t) ==
  IF t_pc[t] = "queued" /\ t_pc'[t] = "generate"
    THEN <<"Received", "UserPersisted", "AssistantPending", "Generating">>
  ELSE IF t_pc[t] = "queued" /\ t_pc'[t] = "last"
    THEN IF \E i \in 1..Len(db_messages') : db_messages'[i].id = UserId(t)
           THEN <<"Received", "UserPersisted", "Failed">>
           ELSE <<"Received", "Failed">>
  ELSE IF t_pc[t] \notin {"idle", "queued", "last"} /\ t_pc'[t] = "last"
    THEN IF ResponseEvents(t)' # {}
           THEN <<"Generating", "Completed">>
           ELSE <<"Generating", "Failed">>
  ELSE <<>>

SpecifiedTransitions ==
  {<<"Received", "UserPersisted">>, <<"UserPersisted", "AssistantPending">>,
   <<"AssistantPending", "Generating">>, <<"Generating", "Completed">>,
   <<"Generating", "Failed">>}

\* The failures before generation: session not found, or the commit of the
\* user or of the assistant Turn raising.
EarlyFailures == {<<"Received", "Failed">>, <<"UserPersisted", "Failed">>}

Follows(t, allowed) ==
  \A i \in 1..Len(StepPath(t)) :
    i < Len(StepPath(t)) => <<StepPath(t)[i], StepPath(t)[i + 1]>> \in allowed

\* The task of t has ended with exactly one terminal event emitted.
Ended(t) == t_pc[t] = "last" /\ TerminalCount(t) = 1

\* C25 as stated: every started submission ends Completed or Failed, and its
\* states follow only Received -> UserPersisted -> AssistantPending ->
\* Generating -> Completed, or Generating -> Failed.
C25_RunToCompletionAsStated ==
  /\ [][\A t \in LiveTasks : Follows(t, SpecifiedTransitions)]_vars
  /\ \A t \in LiveTasks : (t_pc[t] = "queued") ~> Ended(t)

\* C25: every started submission ends with exactly one terminal event,
\* Completed or Failed, and its states follow the specified transitions or go
\* to Failed from Received or UserPersisted.
C25_RunToCompletion ==
  /\ [][\A t \in LiveTasks : Follows(t, SpecifiedTransitions \cup EarlyFailures)]_vars
  /\ \A t \in LiveTasks : (t_pc[t] = "queued") ~> Ended(t)

\* A submission has failed after its user Turn was written and before its
\* assistant Turn was, with a client attached, and its task has ended.
C25_Witness ==
  \E t \in LiveTasks :
    /\ Finished(t) /\ Ended(t) /\ t_exc[t] = InsertFailed
    /\ HasRow(db_messages, UserId(t)) /\ ~HasRow(db_messages, AgentId(t))
    /\ call[t].got # {}

\* The return value of the generator that completed for submission t.
Returned(t) == IF t_primary[t] = "ok" THEN t_full[t] ELSE FallbackWords(t_text[t])

\* C26: the content of the agent_response event, and of the stored assistant
\* Turn while it exists, is the return value of the generator that completed;
\* when the Primary stream raised after delivering text and the Fallback
\* answered, it is the Fallback response and holds none of the Primary text.
C26_FinalTextIsReturnValue ==
  \A t \in Tasks : \A e \in ResponseEvents(t) :
    /\ e.content = Returned(t)
    /\ HasRow(db_messages, e.message_id) =>
         RowOf(db_messages, e.message_id).content = Returned(t)
    /\ t_primary[t] = "raised" =>
         /\ e.content = FallbackWords(t_text[t])
         /\ \A i \in 1..Len(e.content), j \in 1..Len(t_full[t]) :
              e.content[i] # t_full[t][j]

\* The Primary stream raised after a delta was streamed, the Fallback
\* answered, and the Turn is stored.
C26_Witness ==
  \E t \in Tasks :
    /\ Finished(t) /\ t_primary[t] = "raised" /\ t_full[t] # <<>>
    /\ ResponseEvents(t) # {}
    /\ HasRow(db_messages, AgentId(t))
    /\ \E i \in 1..Len(t_emitted[t]) :
         t_emitted[t][i] = Progress("streaming", <<DeltaText(1)>>)

\* C27: a send_message for a conversation without a key in the registry
\* returns at once: nothing is sent, the registry is the same afterwards (no
\* key is created), and the submission goes on.
C27_NoConnectionsIsNoOp ==
  [][\A t \in Tasks :
       (t_emitted'[t] # t_emitted[t] /\ t_sess[t] \notin DOMAIN active_connections) =>
         /\ active_connections' = active_connections
         /\ fan'[t] = IdleFrame
         /\ call'[t].done
         /\ call'[t].tried = {}]_vars

\* A submission without any client has completed and its answer is stored.
C27_Witness ==
  \E t \in Tasks :
    /\ \A c \in Listeners : ws_pc[c] = "new"
    /\ active_connections = <<>>
    /\ Finished(t) /\ ResponseEvents(t) # {}
    /\ HasRow(db_messages, AgentId(t))
    /\ RowOf(db_messages, AgentId(t)).content = FallbackWords(t_text[t])

\* The conversation a caller of send_message sends for: a submission's
\* session, a handler's session.
OwnSession(p) == IF p \in Tasks THEN t_sess[p] ELSE ws_sess[p]

\* C28: an event fanned out for a conversation is sent only to connections
\* that registered under that conversation, whatever happens concurrently on
\* other conversations.
C28_ConversationIsolation ==
  \A p \in Procs :
    /\ fan[p].state = "sending" =>
         /\ fan[p].sid = OwnSession(p)
         /\ ws_sess[fan[p].cur] = fan[p].sid
    /\ \A c \in call[p].tried : ws_sess[c] = call[p].sid

\* An event of a submission has reached the client of its conversation while
\* a client of the other conversation was attached and reachable.
C28_Witness ==
  \E t \in Tasks, d \in Conns :
    /\ call[t].done /\ call[t].got # {}
    /\ ws_sess[d] \in Rooms /\ ws_sess[d] # t_sess[t]
    /\ d \in Attached(active_connections, ws_sess[d])
    /\ ws_open[d]

\* C29: in the messages handed to the Primary generator the text of the
\* current submission appears exactly once, as the last message with role
\* user; the stored user Turn of the submission is not in the list as well.
C29_UserTextOnce ==
  [][\A t \in Tasks :
       (t_request'[t] # t_request[t] /\ t_request'[t] # <<>>) =>
         /\ t_request'[t][Len(t_request'[t])] = [role |-> "user", content |-> t_text[t]]
         /\ Cardinality({i \in 1..Len(t_request'[t]) :
                           /\ t_request'[t][i].role = "user"
                           /\ t_request'[t][i].content = t_text[t]}) = 1]_vars

\* The handler of c has registered c, and the send of its "connection"
\* event to c has not even begun.
NotYetGreeted(c) ==
  /\ ws_pc[c] = "receiving"
  /\ fan[c].state = "sending"
  /\ fan[c].evt = ConnectionEvent(c, ws_sess[c])
  /\ fan[c].cur # c
  /\ c \notin call[c].tried

\* The send_message call of handler p that has just returned was an echo.
EchoReturned(p) == call[p].done /\ call[p].sid # 0 /\ ws_msgs[p] > 0

\* C30: the first event a registered client receives is the "connection"
\* event naming its session id, and an echo of a client's text message has
\* reached every connection attached during it, the sender included.
C30_GreetingFirstThenEcho ==
  /\ [][\A p \in Conns, c \in Conns :
          (NotYetGreeted(c) /\ c \in call'[p].got /\ c \notin call[p].got) =>
            /\ fan[p].evt.type = "connection"
            /\ fan[p].evt.session_id = ws_sess[c]]_vars
  /\ [](\A p \in Conns :
          EchoReturned(p) =>
            {c \in call[p].start \cap call[p].endset : ws_open[c]} \subseteq call[p].got)

====
